---------------------------- MODULE Spec2Model ----------------------------
(***************************************************************************)
(* A model of gmssl.py, the Python binding of the GmSSL library.  Each     *)
(* class of the binding is a family of actions over one state variable.    *)
(* The binding's own code (argument checks, dispatch on the direction      *)
(* flags, mapping of the engine's integer result to a return value or an   *)
(* exception, buffer sizing and slicing, file handles) is translated from  *)
(* src/gmssl.py.  The native engine behind the ctypes calls is not part of *)
(* the binding; where a property needs it, it is modelled from its         *)
(* specification, with a keyed permutation standing in for SM4.            *)
(***************************************************************************)
EXTENDS Integers, Sequences, FiniteSets, TLC

VARIABLES hmac, gcm, sm3, sig, key, strm

vars == <<hmac, gcm, sm3, sig, key, strm>>

\* ------------------------------------------------------------------------
\* Program constants (src/gmssl.py)
SM3_DIGEST_SIZE == 32
SM3_HMAC_MIN_KEY_SIZE == 16
SM3_HMAC_MAX_KEY_SIZE == 64
SM4_KEY_SIZE == 16
SM4_BLOCK_SIZE == 16
ZUC_BLOCK_SIZE == 4
SM4_GCM_MIN_IV_SIZE == 1
SM4_GCM_MAX_IV_SIZE == 64
SM4_GCM_MAX_TAG_SIZE == 16
SM2_MIN_PLAINTEXT_SIZE == 1
SM2_MAX_PLAINTEXT_SIZE == 255

\* The engine's integer results the binding can see: 1 is success, 0 is a
\* failed verification, negative is a fault.
EngineRets == {-2, -1, 0, 1, 2}

\* ------------------------------------------------------------------------
\* Idle values of the families a specification does not exercise.
hmacNone == [st |-> "none", op |-> "none", keylen |-> 0, absorbed |-> 0,
             arg |-> 0, outcome |-> "none", initCalled |-> FALSE]
gcmNone == [st |-> "none"]
sm3None == [st |-> "none"]
sigNone == [st |-> "none"]
keyNone == [st |-> "none"]
strmNone == [phase |-> "none"]

\* ========================================================================
\* Sm3Hmac
\* ========================================================================
\* Bounds of the HMAC family.
MaxHmacKeyLen == 66
MaxHmacData == 2

\* The key-length test of Sm3Hmac.__init__ and Sm3Hmac.reset: TRUE when the
\* call raises ValueError.
Sm3Hmac_badKeyLen_mutant(len) ==
    len <= SM3_HMAC_MIN_KEY_SIZE \/ len > SM3_HMAC_MAX_KEY_SIZE

Sm3Hmac_badKeyLen(len) ==
    len < SM3_HMAC_MIN_KEY_SIZE \/ len > SM3_HMAC_MAX_KEY_SIZE

\* gmssl.sm3_hmac_init: a fresh engine state keyed with a key of this length.
sm3_hmac_init(len) == [keylen |-> len, absorbed |-> 0]

\* Sm3Hmac(key): on a bad length the constructor raises and no object exists.
Sm3Hmac_init ==
    /\ hmac.st = "none"
    /\ \E len \in 0..MaxHmacKeyLen :
         IF Sm3Hmac_badKeyLen(len)
         THEN hmac' = [hmac EXCEPT !.op = "init", !.arg = len,
                                   !.outcome = "ValueError",
                                   !.initCalled = FALSE]
         ELSE hmac' = [st |-> "live", op |-> "init",
                       keylen |-> sm3_hmac_init(len).keylen,
                       absorbed |-> sm3_hmac_init(len).absorbed,
                       arg |-> len, outcome |-> "ok", initCalled |-> TRUE]
    /\ UNCHANGED <<gcm, sm3, sig, key, strm>>

\* Sm3Hmac.reset(key)
Sm3Hmac_reset ==
    /\ hmac.st = "live"
    /\ \E len \in 0..MaxHmacKeyLen :
         IF Sm3Hmac_badKeyLen(len)
         THEN hmac' = [hmac EXCEPT !.op = "reset", !.arg = len,
                                   !.outcome = "ValueError",
                                   !.initCalled = FALSE]
         ELSE hmac' = [st |-> "live", op |-> "reset",
                       keylen |-> sm3_hmac_init(len).keylen,
                       absorbed |-> sm3_hmac_init(len).absorbed,
                       arg |-> len, outcome |-> "ok", initCalled |-> TRUE]
    /\ UNCHANGED <<gcm, sm3, sig, key, strm>>

\* Sm3Hmac.update(data): the engine absorbs the data (counted in calls).
Sm3Hmac_update ==
    /\ hmac.st = "live"
    /\ hmac.absorbed < MaxHmacData
    /\ hmac' = [hmac EXCEPT !.op = "update", !.absorbed = @ + 1,
                            !.outcome = "ok", !.initCalled = FALSE]
    /\ UNCHANGED <<gcm, sm3, sig, key, strm>>

\* Sm3Hmac.generateMac()
Sm3Hmac_generateMac ==
    /\ hmac.st = "live"
    /\ hmac' = [hmac EXCEPT !.op = "generateMac", !.outcome = "mac",
                            !.initCalled = FALSE]
    /\ UNCHANGED <<gcm, sm3, sig, key, strm>>

InitHmac ==
    /\ hmac = hmacNone
    /\ gcm = gcmNone /\ sm3 = sm3None /\ sig = sigNone
    /\ key = keyNone /\ strm = strmNone

NextHmac ==
    \/ Sm3Hmac_init
    \/ Sm3Hmac_reset
    \/ Sm3Hmac_update
    \/ Sm3Hmac_generateMac

SpecHmac == InitHmac /\ [][NextHmac]_vars

\* The engine-side HMAC state of the object.
HmacEngineState(h) == <<h.st, h.keylen, h.absorbed>>

\* C5: Sm3Hmac construction and reset(key) raise the invalid-key-length error
\* exactly when len(key) < 16 or len(key) > 64; a failing call does not invoke
\* the engine's HMAC init and leaves the existing HMAC state unchanged, and a
\* passing call invokes it with that key.
C5_HmacKeyLength ==
    /\ [](hmac.op \in {"init", "reset"} =>
            /\ (hmac.outcome = "ValueError") = (hmac.arg < 16 \/ hmac.arg > 64)
            /\ hmac.initCalled = (hmac.outcome # "ValueError")
            /\ (hmac.initCalled => hmac.st = "live" /\ hmac.keylen = hmac.arg))
    /\ [][hmac'.op \in {"init", "reset"} /\ hmac'.outcome = "ValueError" =>
            HmacEngineState(hmac') = HmacEngineState(hmac)]_vars

\* A reset with a 65-byte key has failed on an object keyed with 16 bytes
\* that has absorbed data.
C5_Witness ==
    /\ hmac.st = "live" /\ hmac.keylen = 16 /\ hmac.absorbed > 0
    /\ hmac.op = "reset" /\ hmac.arg = 65 /\ hmac.outcome = "ValueError"

\* ========================================================================
\* Byte strings and the stand-in block cipher
\* ========================================================================
Min(a, b) == IF a < b THEN a ELSE b

Take(s, n) == SubSeq(s, 1, Min(n, Len(s)))

Drop(s, n) == SubSeq(s, n + 1, Len(s))

RECURSIVE Xor(_, _)
\* Bitwise exclusive-or of two bytes.
Xor(a, b) ==
    IF a = 0 THEN b
    ELSE IF b = 0 THEN a
    ELSE ((a + b) % 2) + 2 * Xor(a \div 2, b \div 2)

\* Bytewise exclusive-or of s with the first Len(s) bytes of t.
XorSeq(s, t) == [i \in 1..Len(s) |-> Xor(s[i], t[i])]

\* gmssl.sm4_encrypt / its inverse under the decrypt key schedule: a keyed
\* permutation of 16-byte blocks (rotate the block, add the round key).
sm4_encrypt(rk, b) ==
    [i \in 1..SM4_BLOCK_SIZE |->
        (b[(i % SM4_BLOCK_SIZE) + 1] + rk[i] + i) % 256]

sm4_decrypt(rk, c) ==
    [j \in 1..SM4_BLOCK_SIZE |->
        LET i == ((j + SM4_BLOCK_SIZE - 2) % SM4_BLOCK_SIZE) + 1
        IN (c[i] + 512 - rk[i] - i) % 256]

\* The result of an engine call: its integer result, the context it leaves
\* and the bytes it wrote (outlen is their number).
EngineResult(r, c, o) == [ret |-> r, ctx |-> c, out |-> o]

\* ========================================================================
\* Engine: SM4-CBC streaming (sm4_cbc_encrypt_* / sm4_cbc_decrypt_*)
\* ========================================================================
RECURSIVE sm4_cbc_encrypt_blocks(_, _, _)
\* CBC encryption of whole blocks: each block is XORed with the previous
\* ciphertext block (the IV first) and then encrypted.
sm4_cbc_encrypt_blocks(rk, iv, in) ==
    IF Len(in) < SM4_BLOCK_SIZE THEN [out |-> <<>>, iv |-> iv]
    ELSE LET c == sm4_encrypt(rk, XorSeq(Take(in, SM4_BLOCK_SIZE), iv))
             rest == sm4_cbc_encrypt_blocks(rk, c, Drop(in, SM4_BLOCK_SIZE))
         IN [out |-> c \o rest.out, iv |-> rest.iv]

RECURSIVE sm4_cbc_decrypt_blocks(_, _, _)
sm4_cbc_decrypt_blocks(rk, iv, in) ==
    IF Len(in) < SM4_BLOCK_SIZE THEN [out |-> <<>>, iv |-> iv]
    ELSE LET c == Take(in, SM4_BLOCK_SIZE)
             p == XorSeq(sm4_decrypt(rk, c), iv)
             rest == sm4_cbc_decrypt_blocks(rk, c, Drop(in, SM4_BLOCK_SIZE))
         IN [out |-> p \o rest.out, iv |-> rest.iv]

sm4_cbc_init(k, iv) == [rk |-> k, iv |-> iv, block |-> <<>>]

\* Complete blocks are encrypted, the trailing partial block is buffered.
sm4_cbc_encrypt_update(ctx, data) ==
    IF Len(ctx.block) >= SM4_BLOCK_SIZE THEN EngineResult(-1, ctx, <<>>)
    ELSE LET all == ctx.block \o data
             n == (Len(all) \div SM4_BLOCK_SIZE) * SM4_BLOCK_SIZE
             r == sm4_cbc_encrypt_blocks(ctx.rk, ctx.iv, Take(all, n))
         IN EngineResult(1, [ctx EXCEPT !.iv = r.iv, !.block = Drop(all, n)],
                         r.out)

\* The buffered bytes are padded to a block with 1..16 bytes of the pad
\* length and encrypted.
sm4_cbc_encrypt_finish(ctx) ==
    IF Len(ctx.block) >= SM4_BLOCK_SIZE THEN EngineResult(-1, ctx, <<>>)
    ELSE LET pad == SM4_BLOCK_SIZE - Len(ctx.block)
             last == ctx.block \o [i \in 1..pad |-> pad]
             r == sm4_cbc_encrypt_blocks(ctx.rk, ctx.iv, last)
         IN EngineResult(1, [ctx EXCEPT !.iv = r.iv, !.block = <<>>], r.out)

\* Decryption holds the last block back (it carries the padding): only the
\* blocks before it are decrypted.
sm4_cbc_decrypt_update(ctx, data) ==
    IF Len(ctx.block) > SM4_BLOCK_SIZE THEN EngineResult(-1, ctx, <<>>)
    ELSE LET all == ctx.block \o data
             n == IF Len(all) = 0 THEN 0
                  ELSE ((Len(all) - 1) \div SM4_BLOCK_SIZE) * SM4_BLOCK_SIZE
             r == sm4_cbc_decrypt_blocks(ctx.rk, ctx.iv, Take(all, n))
         IN EngineResult(1, [ctx EXCEPT !.iv = r.iv, !.block = Drop(all, n)],
                         r.out)

\* The held-back block is decrypted and its padding validated and stripped.
sm4_cbc_decrypt_finish(ctx) ==
    IF Len(ctx.block) # SM4_BLOCK_SIZE THEN EngineResult(-1, ctx, <<>>)
    ELSE LET p == sm4_cbc_decrypt_blocks(ctx.rk, ctx.iv, ctx.block).out
             pad == p[SM4_BLOCK_SIZE]
         IN IF pad < 1 \/ pad > SM4_BLOCK_SIZE
               \/ \E i \in (SM4_BLOCK_SIZE - pad + 1)..SM4_BLOCK_SIZE : p[i] # pad
            THEN EngineResult(-1, ctx, <<>>)
            ELSE EngineResult(1, [ctx EXCEPT !.block = <<>>],
                              Take(p, SM4_BLOCK_SIZE - pad))

\* ========================================================================
\* Engine: SM4-CTR streaming (sm4_ctr_encrypt_*)
\* ========================================================================
RECURSIVE ctr_incr(_, _)
\* Big-endian increment of the counter block, with wraparound, from byte i.
ctr_incr(ctr, i) ==
    IF i = 0 THEN ctr
    ELSE IF ctr[i] = 255 THEN ctr_incr([ctr EXCEPT ![i] = 0], i - 1)
    ELSE [ctr EXCEPT ![i] = @ + 1]

RECURSIVE sm4_ctr_encrypt_blocks(_, _, _)
\* XOR of the input with the encryptions of the successive counters; the
\* last piece may be shorter than a block.
sm4_ctr_encrypt_blocks(rk, ctr, in) ==
    IF Len(in) = 0 THEN [out |-> <<>>, ctr |-> ctr]
    ELSE LET piece == Take(in, SM4_BLOCK_SIZE)
             c == XorSeq(piece, sm4_encrypt(rk, ctr))
             rest == sm4_ctr_encrypt_blocks(rk, ctr_incr(ctr, SM4_BLOCK_SIZE),
                                            Drop(in, SM4_BLOCK_SIZE))
         IN [out |-> c \o rest.out, ctr |-> rest.ctr]

sm4_ctr_encrypt_init(k, iv) == [rk |-> k, ctr |-> iv, block |-> <<>>]

sm4_ctr_encrypt_update(ctx, data) ==
    IF Len(ctx.block) >= SM4_BLOCK_SIZE THEN EngineResult(-1, ctx, <<>>)
    ELSE LET all == ctx.block \o data
             n == (Len(all) \div SM4_BLOCK_SIZE) * SM4_BLOCK_SIZE
             r == sm4_ctr_encrypt_blocks(ctx.rk, ctx.ctr, Take(all, n))
         IN EngineResult(1, [ctx EXCEPT !.ctr = r.ctr, !.block = Drop(all, n)],
                         r.out)

sm4_ctr_encrypt_finish(ctx) ==
    IF Len(ctx.block) >= SM4_BLOCK_SIZE THEN EngineResult(-1, ctx, <<>>)
    ELSE LET r == sm4_ctr_encrypt_blocks(ctx.rk, ctx.ctr, ctx.block)
         IN EngineResult(1, [ctx EXCEPT !.ctr = r.ctr, !.block = <<>>], r.out)

\* ========================================================================
\* Engine: ZUC streaming (zuc_encrypt_*)
\* ========================================================================
\* The keystream word the generator emits at step w: a function of the key,
\* the IV and the number of steps taken since initialization.
zuc_generate_keyword(k, iv, w) ==
    [i \in 1..ZUC_BLOCK_SIZE |->
        (k[((w + i) % SM4_KEY_SIZE) + 1] + 7 * iv[((3 * w + i) % 16) + 1]
           + 29 * w + i) % 256]

RECURSIVE zuc_encrypt_words(_, _, _, _)
zuc_encrypt_words(k, iv, w, in) ==
    IF Len(in) = 0 THEN [out |-> <<>>, w |-> w]
    ELSE LET piece == Take(in, ZUC_BLOCK_SIZE)
             c == XorSeq(piece, zuc_generate_keyword(k, iv, w))
             rest == zuc_encrypt_words(k, iv, w + 1, Drop(in, ZUC_BLOCK_SIZE))
         IN [out |-> c \o rest.out, w |-> rest.w]

zuc_encrypt_init(k, iv) == [k |-> k, iv |-> iv, w |-> 0, block |-> <<>>]

zuc_encrypt_update(ctx, data) ==
    IF Len(ctx.block) >= ZUC_BLOCK_SIZE THEN EngineResult(-1, ctx, <<>>)
    ELSE LET all == ctx.block \o data
             n == (Len(all) \div ZUC_BLOCK_SIZE) * ZUC_BLOCK_SIZE
             r == zuc_encrypt_words(ctx.k, ctx.iv, ctx.w, Take(all, n))
         IN EngineResult(1, [ctx EXCEPT !.w = r.w, !.block = Drop(all, n)],
                         r.out)

zuc_encrypt_finish(ctx) ==
    IF Len(ctx.block) >= ZUC_BLOCK_SIZE THEN EngineResult(-1, ctx, <<>>)
    ELSE LET r == zuc_encrypt_words(ctx.k, ctx.iv, ctx.w, ctx.block)
         IN EngineResult(1, [ctx EXCEPT !.w = r.w, !.block = <<>>], r.out)

\* ========================================================================
\* Binding: Sm4Cbc, Sm4Ctr, Zuc
\* ========================================================================
\* The result of a method call: the exception it raised ("none" when it
\* returned), the object it leaves and the bytes it returned.
CallResult(e, o, r) == [err |-> e, obj |-> o, ret |-> r]

\* create_string_buffer(len(data) + SM4_BLOCK_SIZE) in the update methods,
\* create_string_buffer(SM4_BLOCK_SIZE) in the finish methods.
update_outbuf_size_mutant(n) == n

update_outbuf_size(n) == n + SM4_BLOCK_SIZE

finish_outbuf_size == SM4_BLOCK_SIZE

\* outbuf[0:outlen.value]: the first outlen bytes of a buffer of size cap.
outbuf_slice(out, cap) == Take(out, cap)

\* What a streaming method makes of the engine's result r, given the size of
\* the buffer it allocated.
StreamCall(obj, r, cap) ==
    IF r.ret # 1
    THEN CallResult("InnerError", [obj EXCEPT !.ctx = r.ctx], <<>>)
    ELSE CallResult("none", [obj EXCEPT !.ctx = r.ctx],
                    outbuf_slice(r.out, cap))

Sm4Cbc_init(k, iv, encrypt) ==
    IF Len(k) # SM4_KEY_SIZE THEN CallResult("ValueError", [ctx |-> <<>>], <<>>)
    ELSE IF Len(iv) # SM4_BLOCK_SIZE
    THEN CallResult("ValueError", [ctx |-> <<>>], <<>>)
    ELSE IF encrypt = TRUE
    THEN CallResult("none", [ctx |-> sm4_cbc_init(k, iv), _encrypt |-> TRUE],
                    <<>>)
    ELSE CallResult("none", [ctx |-> sm4_cbc_init(k, iv), _encrypt |-> FALSE],
                    <<>>)

Sm4Cbc_update(obj, data) ==
    IF obj._encrypt = TRUE
    THEN StreamCall(obj, sm4_cbc_encrypt_update(obj.ctx, data),
                    update_outbuf_size(Len(data)))
    ELSE StreamCall(obj, sm4_cbc_decrypt_update(obj.ctx, data),
                    update_outbuf_size(Len(data)))

Sm4Cbc_finish_mutant(obj) ==
    StreamCall(obj, sm4_cbc_encrypt_finish(obj.ctx), finish_outbuf_size)

Sm4Cbc_finish(obj) ==
    IF obj._encrypt = TRUE
    THEN StreamCall(obj, sm4_cbc_encrypt_finish(obj.ctx), finish_outbuf_size)
    ELSE StreamCall(obj, sm4_cbc_decrypt_finish(obj.ctx), finish_outbuf_size)

Sm4Ctr_init(k, iv) ==
    IF Len(k) # SM4_KEY_SIZE THEN CallResult("ValueError", [ctx |-> <<>>], <<>>)
    ELSE IF Len(iv) # SM4_BLOCK_SIZE
    THEN CallResult("ValueError", [ctx |-> <<>>], <<>>)
    ELSE CallResult("none", [ctx |-> sm4_ctr_encrypt_init(k, iv)], <<>>)

Sm4Ctr_update(obj, data) ==
    StreamCall(obj, sm4_ctr_encrypt_update(obj.ctx, data),
               update_outbuf_size(Len(data)))

Sm4Ctr_finish(obj) ==
    StreamCall(obj, sm4_ctr_encrypt_finish(obj.ctx), finish_outbuf_size)

Zuc_init(k, iv) ==
    IF Len(k) # SM4_KEY_SIZE THEN CallResult("ValueError", [ctx |-> <<>>], <<>>)
    ELSE IF Len(iv) # SM4_BLOCK_SIZE
    THEN CallResult("ValueError", [ctx |-> <<>>], <<>>)
    ELSE CallResult("none", [ctx |-> zuc_encrypt_init(k, iv)], <<>>)

Zuc_update(obj, data) ==
    StreamCall(obj, zuc_encrypt_update(obj.ctx, data),
               update_outbuf_size(Len(data)))

Zuc_finish(obj) ==
    StreamCall(obj, zuc_encrypt_finish(obj.ctx), finish_outbuf_size)

\* ========================================================================
\* Streaming scenario: one object encrypts a message fed in arbitrary
\* pieces, then a second object of the same class, key and IV is fed the
\* first one's output in arbitrary pieces.
\* ========================================================================
\* Bounds of the streaming family.
MaxMsgLen == 33
MaxSeed == 1

Kinds == {"cbc", "ctr", "zuc"}

KeyLens == {SM4_KEY_SIZE - 1, SM4_KEY_SIZE, SM4_KEY_SIZE + 1}

\* The bytes the caller supplies: key, IV and message are fixed by a seed.
KeyBytes(seed, len) == [i \in 1..len |-> (11 * seed + 3 * i + 5) % 256]

IvBytes(seed, len) == [i \in 1..len |-> (57 * seed + 250 + i) % 256]

MsgBytes(seed, from, to) ==
    [i \in 1..(to - from + 1) |-> (seed + 37 * (from + i - 1)) % 256]

New(kind, k, iv, encrypt) ==
    CASE kind = "cbc" -> Sm4Cbc_init(k, iv, encrypt)
      [] kind = "ctr" -> Sm4Ctr_init(k, iv)
      [] kind = "zuc" -> Zuc_init(k, iv)

Update(kind, obj, data) ==
    CASE kind = "cbc" -> Sm4Cbc_update(obj, data)
      [] kind = "ctr" -> Sm4Ctr_update(obj, data)
      [] kind = "zuc" -> Zuc_update(obj, data)

Finish(kind, obj) ==
    CASE kind = "cbc" -> Sm4Cbc_finish(obj)
      [] kind = "ctr" -> Sm4Ctr_finish(obj)
      [] kind = "zuc" -> Zuc_finish(obj)

\* The first object is constructed.
StreamNew ==
    /\ strm.phase = "none"
    /\ \E kind \in Kinds, seed \in 0..MaxSeed, kl \in KeyLens, il \in KeyLens :
         LET k == KeyBytes(seed, kl)
             iv == IvBytes(seed, il)
             r == New(kind, k, iv, TRUE)
         IN strm' = [phase |-> IF r.err = "none" THEN "enc" ELSE "fail",
                     kind |-> kind, seed |-> seed, k |-> k, iv |-> iv,
                     pos |-> 0, obj |-> r.obj, out |-> <<>>,
                     dobj |-> [ctx |-> <<>>], dpos |-> 0, dout |-> <<>>,
                     err |-> r.err]
    /\ UNCHANGED <<hmac, gcm, sm3, sig, key>>

\* update(data) on the first object with the next n bytes of the message.
StreamUpdate ==
    /\ strm.phase = "enc"
    /\ \E n \in 0..(MaxMsgLen - strm.pos) :
         LET r == Update(strm.kind, strm.obj,
                         MsgBytes(strm.seed, strm.pos + 1, strm.pos + n))
         IN strm' = [strm EXCEPT !.phase = IF r.err = "none" THEN "enc"
                                           ELSE "fail",
                                 !.pos = @ + n, !.obj = r.obj,
                                 !.out = @ \o r.ret, !.err = r.err]
    /\ UNCHANGED <<hmac, gcm, sm3, sig, key>>

\* finish() on the first object.
StreamFinish ==
    /\ strm.phase = "enc"
    /\ LET r == Finish(strm.kind, strm.obj)
       IN strm' = [strm EXCEPT !.phase = IF r.err = "none" THEN "encdone"
                                         ELSE "fail",
                               !.obj = r.obj, !.out = @ \o r.ret,
                               !.err = r.err]
    /\ UNCHANGED <<hmac, gcm, sm3, sig, key>>

\* The second object is constructed, in the decrypt direction for CBC.
StreamNewDecrypt ==
    /\ strm.phase = "encdone"
    /\ LET r == New(strm.kind, strm.k, strm.iv, FALSE)
       IN strm' = [strm EXCEPT !.phase = IF r.err = "none" THEN "dec"
                                         ELSE "fail",
                               !.dobj = r.obj, !.err = r.err]
    /\ UNCHANGED <<hmac, gcm, sm3, sig, key>>

\* update(data) on the second object with the next n bytes of the output.
StreamUpdateDecrypt ==
    /\ strm.phase = "dec"
    /\ \E n \in 0..(Len(strm.out) - strm.dpos) :
         LET r == Update(strm.kind, strm.dobj,
                         SubSeq(strm.out, strm.dpos + 1, strm.dpos + n))
         IN strm' = [strm EXCEPT !.phase = IF r.err = "none" THEN "dec"
                                           ELSE "fail",
                                 !.dpos = @ + n, !.dobj = r.obj,
                                 !.dout = @ \o r.ret, !.err = r.err]
    /\ UNCHANGED <<hmac, gcm, sm3, sig, key>>

\* finish() on the second object.
StreamFinishDecrypt ==
    /\ strm.phase = "dec"
    /\ LET r == Finish(strm.kind, strm.dobj)
       IN strm' = [strm EXCEPT !.phase = "done", !.dobj = r.obj,
                               !.dout = @ \o r.ret, !.err = r.err]
    /\ UNCHANGED <<hmac, gcm, sm3, sig, key>>

InitStream ==
    /\ strm = strmNone
    /\ hmac = hmacNone /\ gcm = gcmNone /\ sm3 = sm3None
    /\ sig = sigNone /\ key = keyNone

NextStream ==
    \/ StreamNew
    \/ StreamUpdate
    \/ StreamFinish
    \/ StreamNewDecrypt
    \/ StreamUpdateDecrypt
    \/ StreamFinishDecrypt

SpecStream == InitStream /\ [][NextStream]_vars

\* The message the first object has been fed so far.
Fed == MsgBytes(strm.seed, 1, strm.pos)

\* The output of a fresh object given all of data in one update, then finish.
OneShot(kind, k, iv, encrypt, data) ==
    LET u == Update(kind, New(kind, k, iv, encrypt).obj, data)
        f == Finish(kind, u.obj)
    IN [err |-> IF u.err # "none" THEN u.err ELSE f.err,
        out |-> u.ret \o f.ret]

BlockSizeOf(kind) == IF kind = "zuc" THEN 4 ELSE 16

\* C6: for Sm4Ctr, Zuc and Sm4Cbc with a fixed key and IV, however the input
\* is split into update calls, the update outputs followed by the finish
\* output equal the output of one update with the whole input followed by
\* finish (for the encrypting object and for the object fed its output); the
\* partial-block buffer never holds more than one block (16 bytes for
\* CBC/CTR, 4 for ZUC).
C6_SplitEquivalence ==
    /\ strm.phase \in {"enc", "encdone", "dec", "done"} =>
         Len(strm.obj.ctx.block) <= BlockSizeOf(strm.kind)
    /\ strm.phase \in {"dec", "done"} =>
         Len(strm.dobj.ctx.block) <= BlockSizeOf(strm.kind)
    /\ strm.phase = "encdone" =>
         LET one == OneShot(strm.kind, strm.k, strm.iv, TRUE, Fed)
         IN one.err = "none" /\ strm.out = one.out
    /\ strm.phase = "done" /\ strm.dpos = Len(strm.out) =>
         LET one == OneShot(strm.kind, strm.k, strm.iv, FALSE, strm.out)
         IN one.err = strm.err /\ (strm.err = "none" => strm.dout = one.out)
    /\ strm.phase = "fail" => strm.err = "ValueError"

\* A 33-byte message (two blocks and a partial one) was fed to an encrypting
\* Sm4Cbc and finish has returned the padded last block.
C6_Witness ==
    /\ strm.phase = "encdone" /\ strm.kind = "cbc"
    /\ strm.pos = 33 /\ Len(strm.out) = 48

\* C7: feeding the complete output of an encrypting Sm4Cbc (updates plus
\* finish) for a message M of any length, the empty message and multiples of
\* 16 included, into a decrypting Sm4Cbc with the same key and IV yields
\* exactly M, and the decrypt finish does not fail.
C7_CbcRoundTrip ==
    (strm.phase = "done" /\ strm.kind = "cbc" /\ strm.dpos = Len(strm.out)) =>
        /\ strm.err = "none"
        /\ strm.dout = Fed
        /\ Len(strm.out) = (strm.pos \div 16 + 1) * 16

\* A 32-byte message (a multiple of the block size) went through an
\* encrypting and a decrypting Sm4Cbc.
C7_Witness ==
    /\ strm.phase = "done" /\ strm.kind = "cbc" /\ strm.dpos = Len(strm.out)
    /\ strm.pos = 32 /\ Len(strm.dout) = 32

\* ========================================================================
\* Engine: SM4-GCM (sm4_gcm_encrypt_* / sm4_gcm_decrypt_*)
\* ========================================================================
ZeroBlock == [i \in 1..SM4_BLOCK_SIZE |-> 0]

RECURSIVE ghash_update(_, _, _)
\* The running authenticator absorbs data byte by byte: X' = (X xor d) . H,
\* with multiplication in GF(2^128) replaced by an invertible map of one
\* byte, so that the accumulator depends on every byte absorbed.
\* (X is a byte; the test on it makes the accumulator a value at every step.)
ghash_update(H, X, data) ==
    IF X < 0 \/ Len(data) = 0 THEN X
    ELSE ghash_update(H, (5 * Xor(X, data[1]) + H[1]) % 256, Drop(data, 1))

\* The initial counter block: IV || 0^31 || 1 for a 12-byte IV, a hash of
\* the IV otherwise.
gcm_Y0(H, iv) ==
    IF Len(iv) = 12 THEN iv \o <<0, 0, 0, 1>>
    ELSE LET h == ghash_update(H, 0, iv \o <<Len(iv)>>)
         IN [i \in 1..SM4_BLOCK_SIZE |-> (h + 16 * i) % 256]

\* The tag: the authenticator over AAD, ciphertext and both lengths, XORed
\* with the encryption of the initial counter block, cut to taglen bytes.
gcm_tag(ctx) ==
    LET x == ghash_update(ctx.H, ctx.X, <<ctx.aadlen, ctx.clen>>)
        e == sm4_encrypt(ctx.ctr.rk, ctx.Y)
    IN [j \in 1..ctx.taglen |-> Xor((x + 16 * j) % 256, e[j])]

sm4_gcm_init(k, iv, aad, taglen) ==
    IF \/ Len(k) # SM4_KEY_SIZE
       \/ Len(iv) < SM4_GCM_MIN_IV_SIZE \/ Len(iv) > SM4_GCM_MAX_IV_SIZE
       \/ taglen < 1 \/ taglen > SM4_GCM_MAX_TAG_SIZE
    THEN EngineResult(-1, <<>>, <<>>)
    ELSE LET H == sm4_encrypt(k, ZeroBlock)
             Y == gcm_Y0(H, iv)
         IN EngineResult(1,
                [ctr |-> sm4_ctr_encrypt_init(k, ctr_incr(Y, SM4_BLOCK_SIZE)),
                 H |-> H, Y |-> Y, X |-> ghash_update(H, 0, aad),
                 aadlen |-> Len(aad), clen |-> 0, taglen |-> taglen,
                 mac |-> <<>>],
                <<>>)

sm4_gcm_encrypt_update(ctx, data) ==
    LET r == sm4_ctr_encrypt_update(ctx.ctr, data)
    IN IF r.ret # 1 THEN EngineResult(-1, ctx, <<>>)
       ELSE EngineResult(1,
                [ctx EXCEPT !.ctr = r.ctx, !.clen = @ + Len(r.out),
                            !.X = ghash_update(ctx.H, @, r.out)],
                r.out)

\* The last ciphertext bytes are flushed and the tag appended.
sm4_gcm_encrypt_finish(ctx) ==
    LET r == sm4_ctr_encrypt_finish(ctx.ctr)
        c == [ctx EXCEPT !.ctr = r.ctx, !.clen = @ + Len(r.out),
                         !.X = ghash_update(ctx.H, @, r.out)]
    IN IF r.ret # 1 THEN EngineResult(-1, ctx, <<>>)
       ELSE EngineResult(1, c, r.out \o gcm_tag(c))

\* The last taglen bytes seen so far may be the tag: they are held back in
\* ctx.mac, and only the bytes before them are authenticated and decrypted.
sm4_gcm_decrypt_update(ctx, data) ==
    LET all == ctx.mac \o data
        n == IF Len(all) > ctx.taglen THEN Len(all) - ctx.taglen ELSE 0
        r == sm4_ctr_encrypt_update(ctx.ctr, Take(all, n))
    IN IF r.ret # 1 THEN EngineResult(-1, ctx, <<>>)
       ELSE EngineResult(1,
                [ctx EXCEPT !.ctr = r.ctx, !.clen = @ + n,
                            !.X = ghash_update(ctx.H, @, Take(all, n)),
                            !.mac = Drop(all, n)],
                r.out)

\* The expected tag is compared with the held-back bytes; on a mismatch the
\* engine reports failure with its one failure result.
sm4_gcm_decrypt_finish(ctx) ==
    LET r == sm4_ctr_encrypt_finish(ctx.ctr)
    IN IF Len(ctx.mac) # ctx.taglen \/ r.ret # 1
       THEN EngineResult(-1, ctx, <<>>)
       ELSE IF gcm_tag(ctx) # ctx.mac
       THEN EngineResult(-1, [ctx EXCEPT !.ctr = r.ctx], r.out)
       ELSE EngineResult(1, [ctx EXCEPT !.ctr = r.ctx], r.out)

\* ========================================================================
\* Binding: Sm4Gcm
\* ========================================================================
\* The result of the constructor: the exception, the object (has_encrypt
\* tells whether the _encrypt attribute was set) and the engine init
\* function that was called ("none" when neither was).
GcmNew(e, c, has, enc, called) ==
    [err |-> e, obj |-> [ctx |-> c, has_encrypt |-> has, _encrypt |-> enc],
     engine |-> called]

\* The three argument checks of Sm4Gcm.__init__: the ValueError raised, or
\* "none".
Sm4Gcm_validate_mutant(k, iv, taglen) ==
    IF Len(k) # SM4_KEY_SIZE THEN "ValueError"
    ELSE IF Len(iv) < SM4_GCM_MIN_IV_SIZE \/ Len(iv) > SM4_GCM_MAX_IV_SIZE
    THEN "ValueError"
    ELSE IF taglen < 1 \/ taglen >= SM4_GCM_MAX_TAG_SIZE THEN "ValueError"
    ELSE "none"

Sm4Gcm_validate(k, iv, taglen) ==
    IF Len(k) # SM4_KEY_SIZE THEN "ValueError"
    ELSE IF Len(iv) < SM4_GCM_MIN_IV_SIZE \/ Len(iv) > SM4_GCM_MAX_IV_SIZE
    THEN "ValueError"
    ELSE IF taglen < 1 \/ taglen > SM4_GCM_MAX_TAG_SIZE THEN "ValueError"
    ELSE "none"

Sm4Gcm_init(k, iv, aad, taglen, encrypt) ==
    IF Sm4Gcm_validate(k, iv, taglen) # "none"
    THEN GcmNew(Sm4Gcm_validate(k, iv, taglen), <<>>, FALSE, FALSE, "none")
    ELSE LET r == sm4_gcm_init(k, iv, aad, taglen)
             called == IF encrypt = TRUE THEN "sm4_gcm_encrypt_init"
                       ELSE "sm4_gcm_decrypt_init"
         IN IF r.ret # 1
            THEN GcmNew("InnerError", r.ctx, FALSE, FALSE, called)
            ELSE GcmNew("none", r.ctx, TRUE, encrypt, called)

Sm4Gcm_update(obj, data) ==
    IF obj._encrypt = TRUE
    THEN StreamCall(obj, sm4_gcm_encrypt_update(obj.ctx, data),
                    update_outbuf_size(Len(data)))
    ELSE StreamCall(obj, sm4_gcm_decrypt_update(obj.ctx, data),
                    update_outbuf_size(Len(data)))

\* create_string_buffer(SM4_BLOCK_SIZE + SM4_GCM_MAX_TAG_SIZE)
Sm4Gcm_finish(obj) ==
    IF obj._encrypt = TRUE
    THEN StreamCall(obj, sm4_gcm_encrypt_finish(obj.ctx),
                    SM4_BLOCK_SIZE + SM4_GCM_MAX_TAG_SIZE)
    ELSE StreamCall(obj, sm4_gcm_decrypt_finish(obj.ctx),
                    SM4_BLOCK_SIZE + SM4_GCM_MAX_TAG_SIZE)

\* ------------------------------------------------------------------------
\* Construction of an Sm4Gcm over every combination of lengths.
\* Bounds of the construction scenario.
MaxGcmKeyLen == 17
MaxGcmIvLen == 65
MaxGcmTagLen == 17

GcmAad == <<1, 2, 3>>

\* Sm4Gcm(key, iv, aad, taglen, encrypt) on the arguments chosen initially.
GcmConstruct ==
    /\ gcm.st = "args"
    /\ LET r == Sm4Gcm_init(KeyBytes(0, gcm.keylen), IvBytes(0, gcm.ivlen),
                            GcmAad, gcm.taglen, gcm.encrypt)
       IN gcm' = [gcm EXCEPT !.st = IF r.err = "none" THEN "live" ELSE "fail",
                             !.err = r.err,
                             !.has_encrypt = r.obj.has_encrypt,
                             !._encrypt = r.obj._encrypt,
                             !.engine = r.engine]
    /\ UNCHANGED <<hmac, sm3, sig, key, strm>>

\* The arguments of the constructor call: every combination of lengths.
InitGcmNew ==
    /\ \E kl \in 0..MaxGcmKeyLen, il \in 0..MaxGcmIvLen,
          tl \in 0..MaxGcmTagLen, enc \in BOOLEAN :
         gcm = [st |-> "args", keylen |-> kl, ivlen |-> il, taglen |-> tl,
                encrypt |-> enc, err |-> "none", has_encrypt |-> FALSE,
                _encrypt |-> FALSE, engine |-> "none"]
    /\ hmac = hmacNone /\ sm3 = sm3None /\ sig = sigNone
    /\ key = keyNone /\ strm = strmNone

NextGcmNew == GcmConstruct

SpecGcmNew == InitGcmNew /\ [][NextGcmNew]_vars

\* C4: construction of an Sm4Gcm gets past validation exactly when
\* len(key) = 16, len(iv) is in [1,64] and taglen is in [1,16]; every other
\* combination (taglen 0 and 17 included) raises the input-validation error
\* before either engine init function is called and with the direction flag
\* unset; a valid combination calls the init function of its direction and
\* sets the flag to it.
C4_GcmConstruction ==
    gcm.st \in {"live", "fail"} =>
        LET valid == /\ gcm.keylen = 16
                     /\ gcm.ivlen >= 1 /\ gcm.ivlen <= 64
                     /\ gcm.taglen >= 1 /\ gcm.taglen <= 16
        IN /\ (gcm.err = "ValueError") = ~valid
           /\ ~valid => gcm.engine = "none" /\ ~gcm.has_encrypt
           /\ valid => /\ gcm.engine = (IF gcm.encrypt
                                        THEN "sm4_gcm_encrypt_init"
                                        ELSE "sm4_gcm_decrypt_init")
                       /\ gcm.err = "none"
                       /\ gcm.has_encrypt /\ gcm._encrypt = gcm.encrypt

\* Construction with taglen 17, a 16-byte key and a 64-byte IV has failed.
C4_Witness ==
    /\ gcm.st = "fail" /\ gcm.keylen = 16 /\ gcm.ivlen = 64
    /\ gcm.taglen = 17 /\ gcm.err = "ValueError"

\* ------------------------------------------------------------------------
\* Authenticated streaming: an encrypting Sm4Gcm produces ciphertext and
\* tag, one bit of the stream may be flipped in transit, and a decrypting
\* Sm4Gcm with the same key, IV, AAD and tag length is fed the stream.
\* Bounds of the authenticated-streaming scenario.
MaxGcmMsgLen == 17
MaxTamperBit == 1

GcmTagLens == {1, SM4_GCM_MAX_TAG_SIZE}

GcmIv == IvBytes(0, 12)

GcmKey == KeyBytes(0, SM4_KEY_SIZE)

\* The bits an adversary may flip in a byte: the lowest ones and the highest.
TamperBits == {7} \cup (0..(MaxTamperBit - 1))

RECURSIVE Pow2(_)
Pow2(n) == IF n = 0 THEN 1 ELSE 2 * Pow2(n - 1)

\* The stream with bit b of its byte i flipped.
FlipBit(stream, i, b) == [stream EXCEPT ![i] = Xor(@, Pow2(b))]

\* Sm4Gcm(key, iv, aad, taglen, True)
GcmStreamNew ==
    /\ gcm.st = "none"
    /\ \E tl \in GcmTagLens :
         LET r == Sm4Gcm_init(GcmKey, GcmIv, GcmAad, tl, TRUE)
         IN gcm' = [st |-> IF r.err = "none" THEN "enc" ELSE "fail",
                    taglen |-> tl, pos |-> 0, obj |-> r.obj, out |-> <<>>,
                    stream |-> <<>>, tampered |-> FALSE,
                    dobj |-> r.obj, dpos |-> 0, dout |-> <<>>,
                    finished |-> <<>>, err |-> r.err]
    /\ UNCHANGED <<hmac, sm3, sig, key, strm>>

\* update(data) on the encrypting object with the next n message bytes.
GcmStreamUpdate ==
    /\ gcm.st = "enc"
    /\ \E n \in 0..(MaxGcmMsgLen - gcm.pos) :
         LET r == Sm4Gcm_update(gcm.obj, MsgBytes(0, gcm.pos + 1, gcm.pos + n))
         IN gcm' = [gcm EXCEPT !.st = IF r.err = "none" THEN "enc" ELSE "fail",
                               !.pos = @ + n, !.obj = r.obj,
                               !.out = @ \o r.ret, !.err = r.err]
    /\ UNCHANGED <<hmac, sm3, sig, key, strm>>

\* finish() on the encrypting object: the stream is ciphertext then tag.
GcmStreamFinish ==
    /\ gcm.st = "enc"
    /\ LET r == Sm4Gcm_finish(gcm.obj)
       IN gcm' = [gcm EXCEPT !.st = IF r.err = "none" THEN "sent" ELSE "fail",
                             !.obj = r.obj, !.out = @ \o r.ret,
                             !.stream = gcm.out \o r.ret, !.err = r.err]
    /\ UNCHANGED <<hmac, sm3, sig, key, strm>>

\* One bit of the ciphertext or of the tag is flipped in transit.
GcmTamper ==
    /\ gcm.st = "sent"
    /\ ~gcm.tampered
    /\ \E i \in 1..Len(gcm.stream), b \in TamperBits :
         gcm' = [gcm EXCEPT !.stream = FlipBit(@, i, b), !.tampered = TRUE]
    /\ UNCHANGED <<hmac, sm3, sig, key, strm>>

\* Sm4Gcm(key, iv, aad, taglen, False)
GcmStreamNewDecrypt ==
    /\ gcm.st = "sent"
    /\ LET r == Sm4Gcm_init(GcmKey, GcmIv, GcmAad, gcm.taglen, FALSE)
       IN gcm' = [gcm EXCEPT !.st = IF r.err = "none" THEN "dec" ELSE "fail",
                             !.dobj = r.obj, !.err = r.err]
    /\ UNCHANGED <<hmac, sm3, sig, key, strm>>

\* update(data) on the decrypting object with the next n stream bytes.
GcmStreamUpdateDecrypt ==
    /\ gcm.st = "dec"
    /\ \E n \in 0..(Len(gcm.stream) - gcm.dpos) :
         LET r == Sm4Gcm_update(gcm.dobj,
                                SubSeq(gcm.stream, gcm.dpos + 1, gcm.dpos + n))
         IN gcm' = [gcm EXCEPT !.st = IF r.err = "none" THEN "dec" ELSE "fail",
                               !.dpos = @ + n, !.dobj = r.obj,
                               !.dout = @ \o r.ret, !.err = r.err]
    /\ UNCHANGED <<hmac, sm3, sig, key, strm>>

\* finish() on the decrypting object.
GcmStreamFinishDecrypt ==
    /\ gcm.st = "dec"
    /\ LET r == Sm4Gcm_finish(gcm.dobj)
       IN gcm' = [gcm EXCEPT !.st = "done", !.dobj = r.obj,
                             !.finished = r.ret, !.dout = @ \o r.ret,
                             !.err = r.err]
    /\ UNCHANGED <<hmac, sm3, sig, key, strm>>

InitGcm ==
    /\ gcm = gcmNone
    /\ hmac = hmacNone /\ sm3 = sm3None /\ sig = sigNone
    /\ key = keyNone /\ strm = strmNone

NextGcm ==
    \/ GcmStreamNew
    \/ GcmStreamUpdate
    \/ GcmStreamFinish
    \/ GcmTamper
    \/ GcmStreamNewDecrypt
    \/ GcmStreamUpdateDecrypt
    \/ GcmStreamFinishDecrypt

SpecGcm == InitGcm /\ [][NextGcm]_vars

\* The exceptions of the binding that report an engine fault.
EngineFaultErrors == {"InnerError"}

\* C1: finish() of a decrypting Sm4Gcm that was fed a whole stream differing
\* in one bit (of the ciphertext or of the tag) from what the encrypting
\* object produced raises an authentication error, which is not the
\* inner-engine error raised for engine faults, and returns no plaintext.
C1_GcmAuthenticationError ==
    (gcm.st = "done" /\ gcm.tampered /\ gcm.dpos = Len(gcm.stream)) =>
        /\ gcm.err # "none"
        /\ gcm.err \notin EngineFaultErrors
        /\ gcm.finished = <<>>

\* ========================================================================
\* Sm3
\* ========================================================================
\* Bound of the SM3 family: the number of engine calls on one object.
MaxSm3Calls == 4

\* gmssl.sm3_init / sm3_update / sm3_finish on the digest state: the
\* accumulator words and the byte count of the pending block.  finish pads
\* the pending block and compresses it into the accumulator.
sm3_init == [dgst |-> 7, num |-> 0]

sm3_update(ctx, data) ==
    [dgst |-> (31 * ctx.dgst + data + 1) % 251, num |-> (ctx.num + 1) % 64]

sm3_finish(ctx) ==
    [dgst |-> (31 * ctx.dgst + 128 + ctx.num) % 251, num |-> ctx.num]

\* Sm3(): ndigest counts the digest() calls carried out since the last
\* sm3_init, dirty tells whether the digest state was changed after one.
Sm3_init ==
    /\ sm3.st = "none"
    /\ sm3' = [st |-> "live", ctx |-> sm3_init, calls |-> 0, ndigest |-> 0,
               dirty |-> FALSE, op |-> "init"]
    /\ UNCHANGED <<hmac, gcm, sig, key, strm>>

\* Sm3.reset()
Sm3_reset ==
    /\ sm3.st = "live"
    /\ sm3' = [sm3 EXCEPT !.ctx = sm3_init, !.calls = 0, !.ndigest = 0,
                          !.dirty = FALSE, !.op = "reset"]
    /\ UNCHANGED <<hmac, gcm, sig, key, strm>>

\* Sm3.update(data)
Sm3_update ==
    /\ sm3.st = "live"
    /\ sm3.calls < MaxSm3Calls
    /\ \E data \in 0..1 :
         LET c == sm3_update(sm3.ctx, data)
         IN sm3' = [sm3 EXCEPT !.ctx = c, !.calls = @ + 1,
                               !.dirty = @ \/ (sm3.ndigest > 0 /\ c # sm3.ctx),
                               !.op = "update"]
    /\ UNCHANGED <<hmac, gcm, sig, key, strm>>

\* Sm3.digest()
Sm3_digest ==
    /\ sm3.st = "live"
    /\ sm3.calls < MaxSm3Calls
    /\ LET c == sm3_finish(sm3.ctx)
       IN sm3' = [sm3 EXCEPT !.ctx = c, !.calls = @ + 1, !.ndigest = @ + 1,
                             !.dirty = @ \/ (sm3.ndigest > 0 /\ c # sm3.ctx),
                             !.op = "digest"]
    /\ UNCHANGED <<hmac, gcm, sig, key, strm>>

InitSm3 ==
    /\ sm3 = sm3None
    /\ hmac = hmacNone /\ gcm = gcmNone /\ sig = sigNone
    /\ key = keyNone /\ strm = strmNone

NextSm3 ==
    \/ Sm3_init
    \/ Sm3_reset
    \/ Sm3_update
    \/ Sm3_digest

SpecSm3 == InitSm3 /\ [][NextSm3]_vars

\* C9: on an Sm3 object digest() is not carried out twice without a reset()
\* in between, and once digest() has returned the digest state is not
\* changed by a further digest() or update() until reset() is called.
C9_Sm3DigestOnce ==
    sm3.st = "live" => (sm3.ndigest <= 1 /\ ~sm3.dirty)

\* ========================================================================
\* Sm2Key
\* ========================================================================
\* Bounds of the Sm2Key family.
MaxPlaintextLen == 257
MaxDigestLen == 33
MaxOpenFiles == 2

\* What the binding makes of the result of gmssl.sm2_verify /
\* gmssl.sm2_verify_finish.
Sm2Key_verify_result_mutant(ret) ==
    IF ret <= 0 THEN "InnerError"
    ELSE "True"

Sm2Key_verify_result(ret) ==
    IF ret < 0 THEN "InnerError"
    ELSE IF ret = 0 THEN "False"
    ELSE "True"

\* gmssl.sm2_encrypt: the results the engine can give for a plaintext of
\* this length (it rejects lengths outside [1,255]; it may fault otherwise).
sm2_encrypt_rets(len) ==
    IF len < 1 \/ len > 255 THEN {-1} ELSE {-1, 1}

PemOps == {"export_encrypted_private_key_info_pem",
           "import_encrypted_private_key_info_pem",
           "export_public_key_info_pem",
           "import_public_key_info_pem"}

\* Sm2Key()
Sm2Key_new ==
    /\ key.st = "none"
    /\ key' = [st |-> "live", op |-> "new", arg |-> 0, ret |-> 1,
               outcome |-> "ok", engineCalled |-> FALSE, open |-> 0,
               leaked |-> FALSE]
    /\ UNCHANGED <<hmac, gcm, sm3, sig, strm>>

\* Sm2Key.generate_key()
Sm2Key_generate_key ==
    /\ key.st = "live"
    /\ \E ret \in {-1, 1} :
         key' = [key EXCEPT !.op = "generate_key", !.arg = 0, !.ret = ret,
                            !.outcome = IF ret # 1 THEN "InnerError" ELSE "ok",
                            !.engineCalled = TRUE, !.leaked = FALSE]
    /\ UNCHANGED <<hmac, gcm, sm3, sig, strm>>

\* Sm2Key.verify(dgst, sig): dgstlen is len(dgst), ret the engine's result.
Sm2Key_verify ==
    /\ key.st = "live"
    /\ \E dgstlen \in 0..MaxDigestLen, ret \in EngineRets :
         IF dgstlen # SM3_DIGEST_SIZE
         THEN key' = [key EXCEPT !.op = "verify", !.arg = dgstlen, !.ret = 1,
                                 !.outcome = "ValueError",
                                 !.engineCalled = FALSE, !.leaked = FALSE]
         ELSE key' = [key EXCEPT !.op = "verify", !.arg = dgstlen,
                                 !.ret = ret,
                                 !.outcome = Sm2Key_verify_result(ret),
                                 !.engineCalled = TRUE, !.leaked = FALSE]
    /\ UNCHANGED <<hmac, gcm, sm3, sig, strm>>

\* Sm2Key.encrypt(data): len is len(data).
Sm2Key_encrypt ==
    /\ key.st = "live"
    /\ \E len \in 0..MaxPlaintextLen :
         \E ret \in sm2_encrypt_rets(len) :
           key' = [key EXCEPT !.op = "encrypt", !.arg = len, !.ret = ret,
                              !.outcome = IF ret # 1 THEN "InnerError"
                                          ELSE "ciphertext",
                              !.engineCalled = TRUE, !.leaked = FALSE]
    /\ UNCHANGED <<hmac, gcm, sm3, sig, strm>>

\* The four PEM operations: fopen, the engine's PEM call, then either
\* raise InnerError or fclose and return True.  With fopen returning NULL
\* the engine is handed a null FILE pointer: it reports failure or the
\* process dies.
Sm2Key_pem ==
    /\ key.st = "live"
    /\ key.open < MaxOpenFiles
    /\ \E op \in PemOps, opened \in BOOLEAN, ret \in {-1, 1}, dies \in BOOLEAN :
         IF ~opened
         THEN key' = [key EXCEPT !.st = IF dies THEN "crashed" ELSE "live",
                                 !.op = op, !.arg = 0, !.ret = -1,
                                 !.outcome = IF dies THEN "crash"
                                             ELSE "InnerError",
                                 !.engineCalled = TRUE, !.leaked = FALSE]
         ELSE IF ret # 1
         THEN key' = [key EXCEPT !.op = op, !.arg = 1, !.ret = ret,
                                 !.outcome = "InnerError",
                                 !.engineCalled = TRUE,
                                 !.open = @ + 1, !.leaked = TRUE]
         ELSE key' = [key EXCEPT !.op = op, !.arg = 1, !.ret = ret,
                                 !.outcome = "True", !.engineCalled = TRUE,
                                 !.leaked = FALSE]
    /\ UNCHANGED <<hmac, gcm, sm3, sig, strm>>

\* ========================================================================
\* Sm2Signature
\* ========================================================================
\* Bound of the Sm2Signature family: the number of update calls.
MaxSigUpdates == 2

\* Sm2Signature(sm2_key, signer_id, sign): _sign is set before the engine's
\* init; when that fails the constructor raises and no object exists.
Sm2Signature_init ==
    /\ sig.st = "none"
    /\ key.st = "live"
    /\ \E sign \in BOOLEAN, ret \in {-1, 1} :
         sig' = [st |-> IF ret # 1 THEN "failed" ELSE "live",
                 _sign |-> (sign = TRUE), sign0 |-> (sign = TRUE),
                 op |-> "init", ret |-> ret,
                 engine |-> IF sign = TRUE THEN "sm2_sign_init"
                            ELSE "sm2_verify_init",
                 outcome |-> IF ret # 1 THEN "InnerError" ELSE "ok",
                 updates |-> 0]
    /\ UNCHANGED <<hmac, gcm, sm3, key, strm>>

\* Sm2Signature.update(data)
Sm2Signature_update ==
    /\ sig.st = "live"
    /\ sig.updates < MaxSigUpdates
    /\ \E ret \in {-1, 1} :
         sig' = [sig EXCEPT !.op = "update", !.ret = ret,
                            !.engine = IF sig._sign = TRUE
                                       THEN "sm2_sign_update"
                                       ELSE "sm2_verify_update",
                            !.outcome = IF ret # 1 THEN "InnerError" ELSE "ok",
                            !.updates = @ + 1]
    /\ UNCHANGED <<hmac, gcm, sm3, key, strm>>

\* Sm2Signature.sign()
Sm2Signature_sign ==
    /\ sig.st = "live"
    /\ \E ret \in {-1, 1} :
         sig' = [sig EXCEPT !.op = "sign", !.ret = ret,
                            !.engine = "sm2_sign_finish",
                            !.outcome = IF ret # 1 THEN "InnerError"
                                        ELSE "signature"]
    /\ UNCHANGED <<hmac, gcm, sm3, key, strm>>

\* Sm2Signature.verify(sig)
Sm2Signature_verify_result(ret) ==
    IF ret < 0 THEN "InnerError"
    ELSE IF ret = 0 THEN "False"
    ELSE "True"

Sm2Signature_verify ==
    /\ sig.st = "live"
    /\ \E ret \in EngineRets :
         sig' = [sig EXCEPT !.op = "verify", !.ret = ret,
                            !.engine = "sm2_verify_finish",
                            !.outcome = Sm2Signature_verify_result(ret)]
    /\ UNCHANGED <<hmac, gcm, sm3, key, strm>>

InitSm2 ==
    /\ key = keyNone /\ sig = sigNone
    /\ hmac = hmacNone /\ gcm = gcmNone /\ sm3 = sm3None /\ strm = strmNone

NextSm2Key ==
    \/ Sm2Key_new
    \/ Sm2Key_generate_key
    \/ Sm2Key_verify
    \/ Sm2Key_encrypt
    \/ Sm2Key_pem

SpecSm2Key == InitSm2 /\ [][NextSm2Key]_vars

NextSm2Sig ==
    \/ Sm2Key_new
    \/ Sm2Key_generate_key
    \/ Sm2Key_verify
    \/ Sm2Signature_init
    \/ Sm2Signature_update
    \/ Sm2Signature_sign
    \/ Sm2Signature_verify

SpecSm2Sig == InitSm2 /\ [][NextSm2Sig]_vars

\* C2: Sm2Key.encrypt(data) with len(data) outside [1,255] (0 and 256 in
\* particular) fails with an input-validation error, raised before the
\* engine is invoked and distinct from the inner-engine error; with
\* len(data) in [1,255] no input-validation error is raised.
C2_Sm2EncryptLength ==
    (key.st = "live" /\ key.op = "encrypt") =>
        IF key.arg < 1 \/ key.arg > 255
        THEN key.outcome = "ValueError" /\ ~key.engineCalled
        ELSE key.outcome # "ValueError"

\* C3: Sm2Key.verify and Sm2Signature.verify turn the engine's result into
\* exactly one of three outcomes: a negative result raises the inner-engine
\* error, zero returns False without raising, any positive result returns
\* True.
C3_VerifyOutcomes ==
    /\ (key.st = "live" /\ key.op = "verify" /\ key.engineCalled) =>
         /\ key.outcome \in {"InnerError", "False", "True"}
         /\ (key.ret < 0) = (key.outcome = "InnerError")
         /\ (key.ret = 0) = (key.outcome = "False")
         /\ (key.ret > 0) = (key.outcome = "True")
    /\ (sig.st = "live" /\ sig.op = "verify") =>
         /\ sig.outcome \in {"InnerError", "False", "True"}
         /\ (sig.ret < 0) = (sig.outcome = "InnerError")
         /\ (sig.ret = 0) = (sig.outcome = "False")
         /\ (sig.ret > 0) = (sig.outcome = "True")

\* Sm2Key.verify has returned False on an engine result of 0 and
\* Sm2Signature.verify has raised on a negative one.
C3_Witness ==
    /\ key.st = "live" /\ key.op = "verify" /\ key.ret = 0
    /\ key.outcome = "False"
    /\ sig.st = "live" /\ sig.op = "verify" /\ sig.ret = -2
    /\ sig.outcome = "InnerError"

\* C8: the sign-vs-verify mode of an Sm2Signature is the one given at
\* construction and no method changes it; on a context constructed in
\* verify mode sign() is not carried out (the engine's sign-finish is not
\* called and no signature is produced), and on one constructed in sign
\* mode verify(sig) is not carried out.
C8_Sm2SignatureMode ==
    sig.st = "live" =>
        /\ sig._sign = sig.sign0
        /\ (sig.op = "sign" /\ ~sig.sign0) =>
             (sig.engine # "sm2_sign_finish" /\ sig.outcome # "signature")
        /\ (sig.op = "verify" /\ sig.sign0) =>
             (sig.engine # "sm2_verify_finish"
              /\ sig.outcome \notin {"True", "False"})

\* C10: each of the four PEM operations of Sm2Key closes the file handle it
\* opened on every exit path, the InnerError raised on a failed PEM call
\* included: when the operation has returned or raised, no handle it opened
\* remains open.
C10_PemHandleClosed ==
    (key.st = "live" /\ key.op \in PemOps) => (~key.leaked /\ key.open = 0)

=============================================================================
